---- MODULE Spec2Model ----
(***************************************************************************)
(* pyMIND backend: the EEG / vitals windowing and spectrogram services     *)
(* (backend/services) and the file registry of the routes                  *)
(* (backend/routes/graphs.py, backend/routes/vitals.py).                   *)
(*                                                                         *)
(* Times are whole seconds; a time of 0 is the "invalid sample" sentinel.  *)
(* Sampling frequencies are carried in tenths of a hertz so that int(fs)   *)
(* is a real truncation.  A response is a record whose "op" field names    *)
(* the handler that built it; "frame" holds the handler's local variables  *)
(* at the point it returned.                                               *)
(***************************************************************************)
EXTENDS Integers, Sequences, FiniteSets, TLC

VARIABLES
    uploaded_files,   \* routes/graphs.py  uploaded_files : label -> path
    vitals_files,     \* routes/vitals.py  uploaded_files : label -> path
    disk,             \* the upload directory: path -> container
    timestamps,       \* routes/timestamps.py  timestamps : list of dict
    request,          \* the request being answered: its route and query
    result            \* the response of the last request

vars == <<uploaded_files, vitals_files, disk, timestamps, request, result>>

-----------------------------------------------------------------------------
(* Bounds of the model *)

MaxLen == 3          \* longest time vector
MaxChannels == 2     \* most data rows of a fully varied recording
MaxFiles == 2        \* most temporary files the upload directory may hold
MaxSeries == 2       \* most datasets of a waves container

\* Sample times that occur in recordings (seconds); 0 is the sentinel.
TimeValues == {1, 2, 12}
\* Requested offsets (seconds).
Offsets == {-3, 0, 1, 10, 11, 12}
\* Requested spectrogram window durations (seconds).
Durations == {1, 30}
\* SamplingFreq attribute values, in tenths of a hertz.
FsValues == {5, 25, 3000}

-----------------------------------------------------------------------------
(* Program constants *)

LiveWindowDuration == 10     \* window_duration = 10.0
MaxLiveChannels == 8         \* min(data.shape[0], 8)
MaxNperseg == 256            \* min(256, int(fs))
DefaultFs10 == 2500          \* 'sampling_freq': 250.0
NoPath == 0                  \* dict.get() -> None

-----------------------------------------------------------------------------
(* Helpers standing for Python / numpy primitives *)

Max(a, b) == IF a >= b THEN a ELSE b
Min(a, b) == IF a <= b THEN a ELSE b

\* d.get(k)
Get(d, k) == IF k \in DOMAIN d THEN d[k] ELSE NoPath

\* d[k] = v
Put(d, k, v) == [x \in DOMAIN d \cup {k} |-> IF x = k THEN v ELSE d[x]]

\* d.pop(k, None)
Pop(d, k) == [x \in DOMAIN d \ {k} |-> d[x]]

\* file_path and os.path.exists(file_path)
Exists(path) == path # NoPath /\ path \in DOMAIN disk

\* row[mask] : numpy boolean indexing, order preserved (row and mask have
\* the same length wherever the services index: D.cols = len(T))
RECURSIVE BoolIndex(_, _)
BoolIndex(row, mask) ==
    IF row = <<>> \/ mask = <<>> THEN <<>>
    ELSE (IF Head(mask) THEN <<Head(row)>> ELSE <<>>)
         \o BoolIndex(Tail(row), Tail(mask))

\* np.any(mask)
NpAny(mask) == \E i \in DOMAIN mask : mask[i]

-----------------------------------------------------------------------------
(* Validity filter and window extraction *)

\* valid_mask = time != 0
ValidMask(time) == [i \in DOMAIN time |-> time[i] # 0]

\* time_valid = time[valid_mask]
TimeValid(time) == BoolIndex(time, ValidMask(time))

\* the row masked by its own non-zero values instead of by the time vector
ChannelValidByValue(row, time) ==
    BoolIndex(row, [i \in DOMAIN row |-> row[i] # 0])

\* channel_data = data[ch_idx, valid_mask]
ChannelValid(row, time) == BoolIndex(row, ValidMask(time))

\* start_time without the clamp to the first valid sample
StartTimeUnclamped(time_valid, time_offset) ==
    time_valid[1] + time_offset

\* start_time = max(time_valid[0], time_valid[0] + time_offset)
StartTime(time_valid, time_offset) ==
    Max(time_valid[1], time_valid[1] + time_offset)

\* end_time without the requested duration
EndTimeOfRecording(time_valid, start_time, window_duration) ==
    time_valid[Len(time_valid)]

\* end_time = min(time_valid[-1], start_time + window_duration)
EndTime(time_valid, start_time, window_duration) ==
    Min(time_valid[Len(time_valid)], start_time + window_duration)

\* the mask with the end of the interval excluded
WindowMaskHalfOpen(time_valid, start_time, end_time) ==
    [i \in DOMAIN time_valid |->
        time_valid[i] >= start_time /\ time_valid[i] < end_time]

\* mask = (time_valid >= start_time) & (time_valid <= end_time)
WindowMask(time_valid, start_time, end_time) ==
    [i \in DOMAIN time_valid |->
        time_valid[i] >= start_time /\ time_valid[i] <= end_time]

\* the selected times left absolute
RebaseForgotten(time_sel, start_time) == time_sel

\* (time_valid[mask] - start_time).tolist()
Rebase(time_sel, start_time) ==
    [i \in DOMAIN time_sel |-> time_sel[i] - start_time]

-----------------------------------------------------------------------------
(* Containers on disk *)

\* Ascending in its non-zero entries: the recorder writes samples in time
\* order and pads unrecorded slots with 0.
Ascending(time) ==
    \A i, j \in DOMAIN time :
        (i < j /\ time[i] # 0 /\ time[j] # 0) => time[i] < time[j]

TimeVectors ==
    { t \in UNION { [1..n -> TimeValues \cup {0}] : n \in 0..MaxLen } :
        Ascending(t) }

\* Sample (ch, i) carries a value that identifies its row and column; the
\* first sample of the first row is 0.
DataValue(ch, i) == 10 * (ch - 1) + (i - 1)

DataMatrix(c, n) == [ch \in 1..c |-> [i \in 1..n |-> DataValue(ch, i)]]

\* Metadata channel names; ChannelNames absent is the empty list.
MetaName(j) == <<"Name", j>>
DefaultName(i) == <<"Ch", i>>

NameLists(c) ==
    { <<>>,
      [j \in 1..(c - 1) |-> MetaName(j)],
      [j \in 1..c |-> MetaName(j)],
      [j \in 1..(c + 1) |-> MetaName(j)],
      [j \in 1..c |-> MetaName(1)] }

\* An EEG container: the Time and Data datasets (either may be missing) and
\* the ChannelNames / SamplingFreq attributes (fs10 = 0: attribute absent).
EegFile(hasTime, hasData, time, c, names, fs10) ==
    [ kind |-> "eeg", hasTime |-> hasTime, hasData |-> hasData,
      Time |-> time, Data |-> DataMatrix(c, Len(time)),
      ChannelNames |-> names, SamplingFreq |-> fs10,
      series |-> <<>> ]

\* Fully varied recordings, recordings wider than the live display shows,
\* and containers that lack one of the two datasets.
VariedEegFiles ==
    UNION { { EegFile(TRUE, TRUE, t, c, nm, f) :
                t \in TimeVectors, nm \in NameLists(c),
                f \in FsValues } : c \in 1..MaxChannels }

WideEegFiles ==
    { EegFile(TRUE, TRUE, t, MaxLiveChannels + 1, <<>>, 0) : t \in TimeVectors }

BrokenEegFiles ==
    { EegFile(hT, hD, <<1, 2, 12>>, 1, <<>>, 25) :
        hT \in BOOLEAN, hD \in {FALSE} }
    \cup { EegFile(FALSE, TRUE, <<1, 2, 12>>, 1, <<>>, 25) }

EegFiles == VariedEegFiles \cup WideEegFiles \cup BrokenEegFiles

-----------------------------------------------------------------------------
(* backend/services/eeg_service.py *)

KeysMissing == "HDF5 file does not contain 'Time' and 'Data' keys"

\* read_eeg_hdf5 raises ValueError unless both datasets are present.
ReadEegRaises(f) == ~(f.hasTime /\ f.hasData)

\* The local variables of a window extraction, at the handler's return.
NoFrame ==
    [ read |-> FALSE, raised |-> FALSE, time_valid |-> <<>>,
      windowed |-> FALSE, start_time |-> 0, end_time |-> 0, mask |-> <<>>,
      looped |-> FALSE, fs |-> 0, nperseg |-> 0, noverlap |-> 0,
      fault |-> 0, done |-> <<>>, skipped |-> <<>>, axes_at |-> <<>> ]

WindowFrame(time, time_offset, window_duration) ==
    LET tv == TimeValid(time)
        st == StartTime(tv, time_offset)
        en == EndTime(tv, st, window_duration)
    IN  [ NoFrame EXCEPT !.read = TRUE, !.time_valid = tv,
                         !.windowed = TRUE, !.start_time = st,
                         !.end_time = en, !.mask = WindowMask(tv, st, en) ]

\* get_eeg_live_data(file_path, time_offset)
get_eeg_live_data(file_path, time_offset) ==
    LET window_duration == LiveWindowDuration
        Reply(channels, frame) ==
            [ op |-> "eeg_live", channels |-> channels,
              time_offset |-> time_offset,
              window_duration |-> window_duration,
              error |-> <<>>, frame |-> frame ]
    IN
    IF ~Exists(file_path) THEN Reply(<<>>, NoFrame)
    ELSE LET f == disk[file_path] IN
    IF ReadEegRaises(f) THEN
        \* except Exception: pass
        Reply(<<>>, [NoFrame EXCEPT !.raised = TRUE])
    ELSE LET time_valid == TimeValid(f.Time) IN
    IF ~(Len(time_valid) > 1) THEN
        Reply(<<>>, [NoFrame EXCEPT !.read = TRUE, !.time_valid = time_valid])
    ELSE
        LET fr == WindowFrame(f.Time, time_offset, window_duration)
            time_window == Rebase(BoolIndex(time_valid, fr.mask), fr.start_time)
            num_channels == Min(Len(f.Data), MaxLiveChannels)
        IN  IF ~NpAny(fr.mask) THEN Reply(<<>>, fr)
            ELSE Reply(
                    [ch \in 1..num_channels |->
                        [ time |-> time_window,
                          values |-> BoolIndex(ChannelValid(f.Data[ch], f.Time),
                                               fr.mask) ]],
                    fr)

-----------------------------------------------------------------------------
(* Spectrograms *)

NpersegMessage == "nperseg must be a positive integer"
FaultMessage == "fault"

\* metadata['channel_names'] : the attribute, else []
MetaChannelNames(f) == f.ChannelNames

\* metadata['sampling_freq'] : the attribute, else 250.0
MetaSamplingFreq(f) ==
    IF f.SamplingFreq # 0 THEN f.SamplingFreq ELSE DefaultFs10

\* [f'Ch_{i+1}' for i in range(data.shape[0])] when the metadata names none
ChannelNamesOf(f) ==
    IF MetaChannelNames(f) = <<>>
    THEN [i \in 1..Len(f.Data) |-> DefaultName(i)]
    ELSE MetaChannelNames(f)

\* the segment length left at its default, whatever the sampling frequency
NpersegFixed(fs10) == MaxNperseg

\* nperseg = min(256, int(fs))
Nperseg(fs10) == Min(MaxNperseg, fs10 \div 10)

\* noverlap = nperseg // 2
Noverlap(nperseg) == nperseg \div 2

\* scipy.signal.spectrogram rejects a segment length below 1.
ComputeRaises(nperseg) == nperseg < 1

\* compute_spectrogram: one-sided spectrum of nperseg // 2 + 1 bins over
\* (n - noverlap) // (nperseg - noverlap) segments.  Bin k is k*fs/nperseg
\* (kept as k*fs10), segment j is centred on sample nperseg/2 + j*step (kept
\* in half samples); the power surface is kept as its shape and the samples
\* it was computed from.
compute_spectrogram(data, fs10, nperseg, noverlap) ==
    LET nf == nperseg \div 2 + 1
        step == nperseg - noverlap
        nt == (Len(data) - noverlap) \div step
    IN  [ frequencies |-> [k \in 1..nf |-> (k - 1) * fs10],
          times |-> [j \in 1..nt |-> nperseg + 2 * (j - 1) * step],
          power |-> [rows |-> nf, cols |-> nt, samples |-> data] ]

\* the except clause answering with a fresh, empty result
OnExceptionDiscard(res, message) ==
    [res EXCEPT !.error = <<message>>, !.frame.raised = TRUE,
                !.spectrograms = <<>>, !.frequencies = <<>>, !.times = <<>>]

\* except Exception as e: result['error'] = str(e); return result
OnException(res, message) ==
    [res EXCEPT !.error = <<message>>, !.frame.raised = TRUE]

\* the axes stored on every channel
StoreAxesAlways(res, spec_data, ch_idx) ==
    [res EXCEPT !.frequencies = spec_data.frequencies,
                !.times = spec_data.times,
                !.frame.axes_at = Append(@, ch_idx)]

\* if not result['frequencies']: result['frequencies'] = ...; result['times'] = ...
\* (frame.axes_at lists the channels at which the assignment ran)
StoreAxes(res, spec_data, ch_idx) ==
    IF res.frequencies = <<>>
    THEN [res EXCEPT !.frequencies = spec_data.frequencies,
                     !.times = spec_data.times,
                     !.frame.axes_at = Append(@, ch_idx)]
    ELSE res

\* for ch_idx, ch_name in enumerate(channel_names): ...
\* res is the result dictionary as the loop has left it so far; a raise in
\* compute_spectrogram (its own, or a fault of the run at channel
\* res.frame.fault) leaves the loop for the handler's except clause.
RECURSIVE SpectrogramLoop(_, _, _, _)
SpectrogramLoop(ch_idx, res, f, channel_names) ==
    IF ch_idx > Len(channel_names) THEN res
    ELSE IF ch_idx > Len(f.Data) THEN res
    ELSE
        LET fr == res.frame
            channel_data == BoolIndex(ChannelValid(f.Data[ch_idx], f.Time),
                                      fr.mask)
        IN
        IF Len(channel_data) < fr.nperseg THEN
            SpectrogramLoop(ch_idx + 1,
                [res EXCEPT !.frame.skipped = Append(@, ch_idx)],
                f, channel_names)
        ELSE IF ComputeRaises(fr.nperseg) THEN
            OnException(res, NpersegMessage)
        ELSE IF fr.fault = ch_idx THEN
            OnException(res, FaultMessage)
        ELSE
            LET spec_data == compute_spectrogram(channel_data, fr.fs,
                                                 fr.nperseg, fr.noverlap)
            IN  SpectrogramLoop(ch_idx + 1,
                    StoreAxes(
                        [res EXCEPT
                            !.spectrograms =
                                Put(@, channel_names[ch_idx], spec_data.power),
                            !.frame.done = Append(@, ch_idx)],
                        spec_data, ch_idx),
                    f, channel_names)

SpecDefaultDuration == 30    \* window_duration: float = 30.0

\* the initial result built from the signature's defaults, not the request
InitialResultDefaults(time_offset, window_duration, fault) ==
    [ op |-> "eeg_spec", spectrograms |-> <<>>,
      channel_names |-> <<>>, frequencies |-> <<>>, times |-> <<>>,
      time_offset |-> 0, window_duration |-> SpecDefaultDuration,
      sampling_freq |-> DefaultFs10, error |-> <<>>,
      frame |-> [NoFrame EXCEPT !.fault = fault] ]

\* result = {'spectrograms': {}, ..., 'sampling_freq': 250.0}
InitialResult(time_offset, window_duration, fault) ==
    [ op |-> "eeg_spec", spectrograms |-> <<>>,
      channel_names |-> <<>>, frequencies |-> <<>>, times |-> <<>>,
      time_offset |-> time_offset,
      window_duration |-> window_duration,
      sampling_freq |-> DefaultFs10, error |-> <<>>,
      frame |-> [NoFrame EXCEPT !.fault = fault] ]

\* get_eeg_spectrograms(file_path, time_offset, window_duration); fault is
\* the channel (0: none) at which the run makes compute_spectrogram raise.
get_eeg_spectrograms(file_path, time_offset, window_duration, fault) ==
    LET res0 == InitialResult(time_offset, window_duration, fault)
    IN
    IF ~Exists(file_path) THEN res0
    ELSE LET f == disk[file_path] IN
    IF ReadEegRaises(f) THEN
        OnException(res0, KeysMissing)
    ELSE
        LET fs == MetaSamplingFreq(f)
            channel_names == ChannelNamesOf(f)
            time_valid == TimeValid(f.Time)
            res1 == [res0 EXCEPT !.channel_names = channel_names,
                                 !.sampling_freq = fs,
                                 !.frame.read = TRUE,
                                 !.frame.time_valid = time_valid]
        IN
        IF Len(time_valid) < 2 THEN res1
        ELSE
            LET w == WindowFrame(f.Time, time_offset, window_duration)
                nperseg == Nperseg(fs)
                res2 == [res1 EXCEPT
                            !.frame = [w EXCEPT !.fault = fault, !.fs = fs]]
            IN  IF ~NpAny(w.mask) THEN res2
                ELSE SpectrogramLoop(1,
                        [res2 EXCEPT !.frame.looped = TRUE,
                                     !.frame.nperseg = nperseg,
                                     !.frame.noverlap = Noverlap(nperseg)],
                        f, channel_names)

-----------------------------------------------------------------------------
(* Trend plot *)

TrendWindow == 200           \* min(200, len(eeg_signal) // 10)
SimPoints == 3000            \* np.linspace(0, 60, 3000)

\* generate_eeg_trend_plot(file_path): the title and the number of points of
\* the plotted series (the figure itself is rendered from these).
generate_eeg_trend_plot(file_path) ==
    LET Reply(title, n, raised) ==
            [ op |-> "eeg_trend", title |-> title, points |-> n,
              error |-> <<>>,
              frame |-> [NoFrame EXCEPT !.raised = raised] ]
        simulated == SimPoints - TrendWindow + 1
    IN
    IF ~Exists(file_path) THEN
        Reply(<<"EEG Trend Signal (Simulated)">>, simulated, FALSE)
    ELSE LET f == disk[file_path] IN
    IF ReadEegRaises(f) THEN
        Reply(<<"EEG Trend Signal (Error: ", KeysMissing, ")">>,
              simulated, TRUE)
    ELSE
        LET n == Len(f.Data[1])
            window_size == Min(TrendWindow, n \div 10)
        IN  Reply(<<"EEG Trend Signal">>,
                  IF window_size > 1 THEN n - window_size + 1 ELSE n,
                  FALSE)

-----------------------------------------------------------------------------
(* backend/services/vitals_service.py *)

\* Dataset names are sequences of characters.
UpperToLower ==
    [ A |-> "a", B |-> "b", C |-> "c", E |-> "e", G |-> "g", L |-> "l",
      P |-> "p", R |-> "r", S |-> "s", T |-> "t", H |-> "h" ]

\* key.lower()
Lower(key) ==
    [i \in DOMAIN key |->
        IF key[i] \in DOMAIN UpperToLower THEN UpperToLower[key[i]]
        ELSE key[i]]

\* sub in text
Contains(sub, text) ==
    \E i \in 0..(Len(text) - Len(sub)) :
        SubSeq(text, i + 1, i + Len(sub)) = sub

\* The if / elif chain of the waveform loop: the role a dataset name is
\* taken for.
RoleOf(key) ==
    LET key_lower == Lower(key) IN
    IF Contains(<<"e", "c", "g">>, key_lower) THEN "ecg"
    ELSE IF \/ Contains(<<"a", "b", "p">>, key_lower)
            \/ Contains(<<"a", "r", "t", "e", "r", "i", "a", "l">>, key_lower)
            \/ Contains(<<"a", "r", "t">>, key_lower) THEN "abp"
    ELSE IF Contains(<<"p", "l", "e", "t", "h">>, key_lower) THEN "pleth"
    ELSE IF \/ Contains(<<"r", "e", "s", "p">>, key_lower)
            \/ Contains(<<"i", "m", "p", "e", "d", "a", "n", "c", "e">>,
                        key_lower) THEN "resp"
    ELSE "none"

\* ecg_key = abp_key = pleth_key = resp_key = None
NoKeys == [r \in {"ecg", "abp", "pleth", "resp"} |-> <<>>]

\* for key in waves.keys(): ... ecg_key = key ... (no break)
RECURSIVE SelectKeys(_, _)
SelectKeys(keys, sel) ==
    IF keys = <<>> THEN sel
    ELSE LET key == Head(keys)
             role == RoleOf(key)
         IN  SelectKeys(Tail(keys),
                 IF role = "none" THEN sel ELSE [sel EXCEPT ![role] = key])

\* read_vitals_waves_hdf5: the datasets with at least 2 rows, in the
\* container's iteration order.
read_vitals_waves_hdf5(f) ==
    SelectSeq(f.series, LAMBDA d : d.rows >= 2)

\* waves[key]
Lookup(waves, key) ==
    LET i == CHOOSE j \in DOMAIN waves : waves[j].key = key IN waves[i]

\* One "Get ... data" block: whether the waveform is stored, and as what.
Waveform(d, time_offset, window_duration) ==
    LET time_full == TimeValid(d.time)
        values_full == ChannelValid(d.values, d.time)
    IN  IF ~(Len(time_full) > 1)
        THEN [ stored |-> FALSE, time |-> <<>>, values |-> <<>>,
               label |-> d.key,
               frame |-> [NoFrame EXCEPT !.read = TRUE,
                                         !.time_valid = time_full] ]
        ELSE LET fr == WindowFrame(d.time, time_offset, window_duration)
             IN  [ stored |-> TRUE,
                   time |-> Rebase(BoolIndex(time_full, fr.mask), fr.start_time),
                   values |-> BoolIndex(values_full, fr.mask),
                   label |-> d.key, frame |-> fr ]

\* get_vitals_live_data(waves_file_path, numerics_file_path, time_offset)
get_vitals_live_data(waves_file_path, time_offset) ==
    LET window_duration == LiveWindowDuration
        Reply(waveforms, keys, frames) ==
            [ op |-> "vitals_live", waveforms |-> waveforms,
              waveforms_series |->
                  [r \in DOMAIN waveforms |->
                      [ time |-> waveforms[r].time,
                        values |-> waveforms[r].values ]],
              time_offset |-> time_offset,
              window_duration |-> window_duration,
              keys |-> keys, frames |-> frames, error |-> <<>> ]
    IN
    IF ~Exists(waves_file_path) THEN Reply(<<>>, NoKeys, <<>>)
    ELSE
        LET waves == read_vitals_waves_hdf5(disk[waves_file_path])
            keys == SelectKeys([i \in DOMAIN waves |-> waves[i].key], NoKeys)
            found == { r \in DOMAIN keys : keys[r] # <<>> }
            w == [r \in found |->
                    Waveform(Lookup(waves, keys[r]), time_offset,
                             window_duration)]
            stored == { r \in found : w[r].stored }
        IN  Reply([r \in stored |->
                      [ time |-> w[r].time, values |-> w[r].values,
                        label |-> w[r].label ]],
                  keys,
                  [r \in found |-> w[r].frame])

\* Dataset names, in the order the container iterates them (by name).
KeyNames ==
    << <<"A", "B", "P">>, <<"A", "R", "T">>, <<"E", "C", "G">>,
       <<"P", "l", "e", "t", "h">>, <<"R", "e", "s", "p">>,
       <<"e", "c", "g", "2">> >>

\* The names at the chosen positions, in container order.
RECURSIVE KeysAt(_, _)
KeysAt(S, i) ==
    IF i > Len(KeyNames) THEN <<>>
    ELSE (IF i \in S THEN <<KeyNames[i]>> ELSE <<>>) \o KeysAt(S, i + 1)

\* A waves container: every dataset holds the time row and a value row whose
\* samples identify their column (the first is 0); oneRow marks the first
\* dataset as having a single row.
WavesFile(S, time, oneRow) ==
    LET keys == KeysAt(S, 1) IN
    [ kind |-> "waves", hasTime |-> FALSE, hasData |-> FALSE,
      Time |-> <<>>, Data |-> <<>>, ChannelNames |-> <<>>,
      SamplingFreq |-> 0,
      series |-> [i \in DOMAIN keys |->
                    [ key |-> keys[i],
                      rows |-> IF oneRow /\ i = 1 THEN 1 ELSE 2,
                      time |-> time,
                      values |-> [j \in DOMAIN time |-> j - 1] ]] ]

KeyChoices ==
    { X \in SUBSET (1..Len(KeyNames)) : Cardinality(X) <= MaxSeries }

WavesFiles ==
    { WavesFile(S, t, FALSE) : S \in KeyChoices, t \in TimeVectors }
    \cup { WavesFile(S, <<1, 2, 12>>, TRUE) : S \in KeyChoices }

-----------------------------------------------------------------------------
(* backend/routes/graphs.py *)

NoResult == [op |-> "none"]
NoRequest == [route |-> "none"]

\* The routes answer one request at a time: a handler runs when no response
\* is waiting to be sent.
Idle == result = NoResult

\* GET /eeg/live/data
get_eeg_live_data_endpoint(time_offset) ==
    /\ Idle
    /\ request' = [route |-> "/eeg/live/data", time_offset |-> time_offset]
    /\ result' = get_eeg_live_data(Get(uploaded_files, "eeg"), time_offset)
    /\ UNCHANGED <<uploaded_files, vitals_files, disk, timestamps>>

\* GET /eeg/spectrogram
get_eeg_spectrogram_data(time_offset, window_duration, fault) ==
    /\ Idle
    /\ request' = [ route |-> "/eeg/spectrogram", time_offset |-> time_offset,
                    window_duration |-> window_duration ]
    /\ result' = get_eeg_spectrograms(Get(uploaded_files, "eeg"),
                                      time_offset, window_duration, fault)
    /\ UNCHANGED <<uploaded_files, vitals_files, disk, timestamps>>

\* GET /eeg/trend
get_eeg_trend_plot ==
    /\ Idle
    /\ request' = [route |-> "/eeg/trend"]
    /\ result' = generate_eeg_trend_plot(Get(uploaded_files, "eeg"))
    /\ UNCHANGED <<uploaded_files, vitals_files, disk, timestamps>>

\* POST /eeg/upload: the content is written to a fresh temporary file and
\* its path registered; files registered earlier stay on disk.
upload_eeg_file(content) ==
    /\ Idle
    /\ \E file_path \in (1..MaxFiles) \ DOMAIN disk :
          /\ disk' = Put(disk, file_path, content)
          /\ uploaded_files' = Put(uploaded_files, "eeg", file_path)
    /\ request' = [route |-> "/eeg/upload"]
    /\ result' = [op |-> "eeg_upload", status |-> "File uploaded successfully"]
    /\ UNCHANGED <<vitals_files, timestamps>>

\* DELETE /eeg/clear; removeFails: os.remove raises.
clear_eeg(removeFails) ==
    LET file_path == Get(uploaded_files, "eeg") IN
    /\ Idle
    /\ request' = [route |-> "/eeg/clear"]
    /\ IF Exists(file_path) /\ removeFails
       THEN /\ result' = [op |-> "eeg_clear", status |-> "error"]
            /\ UNCHANGED <<uploaded_files, disk>>
       ELSE /\ disk' = IF Exists(file_path) THEN Pop(disk, file_path) ELSE disk
            /\ uploaded_files' = Pop(uploaded_files, "eeg")
            /\ result' = [op |-> "eeg_clear", status |-> "cleared"]
    /\ UNCHANGED <<vitals_files, timestamps>>

\* GET /live/data (routes/vitals.py)
get_vitals_live_data_endpoint(time_offset) ==
    /\ Idle
    /\ request' = [route |-> "/live/data", time_offset |-> time_offset]
    /\ result' = get_vitals_live_data(Get(vitals_files, "waves"), time_offset)
    /\ UNCHANGED <<uploaded_files, vitals_files, disk, timestamps>>

\* return JSONResponse(content=data): the response leaves the handler.
Respond ==
    /\ ~Idle
    /\ request' = NoRequest
    /\ result' = NoResult
    /\ UNCHANGED <<uploaded_files, vitals_files, disk, timestamps>>

-----------------------------------------------------------------------------
(* routes/timestamps.py.  created_at, a wall-clock string no handler reads, *)
(* is left out of the annotation records.                                   *)

MaxTimestamps == 3

TimestampOffsets == {0, 10}
Descriptions == {"a", "b"}
TimestampIds == 1..(MaxTimestamps + 1)

\* POST /
add_timestamp(time_offset, description) ==
    /\ Idle
    /\ Len(timestamps) < MaxTimestamps
    /\ LET new_timestamp == [ id |-> Len(timestamps) + 1,
                              time_offset |-> time_offset,
                              description |-> description ]
       IN  /\ timestamps' = Append(timestamps, new_timestamp)
           /\ result' = [ op |-> "ts_add", status |-> "success",
                          status_code |-> 200, timestamp |-> new_timestamp ]
    /\ request' = [ route |-> "POST /timestamps",
                    time_offset |-> time_offset,
                    description |-> description ]
    /\ UNCHANGED <<uploaded_files, vitals_files, disk>>

\* PUT /{timestamp_id}: the first annotation with the id is updated
update_timestamp(timestamp_id, description) ==
    /\ Idle
    /\ LET found == { i \in DOMAIN timestamps :
                          timestamps[i].id = timestamp_id }
       IN  IF found # {}
           THEN LET i == CHOOSE x \in found : \A y \in found : x <= y
                IN  /\ timestamps' =
                           [timestamps EXCEPT ![i].description = description]
                    /\ result' = [ op |-> "ts_update", status |-> "success",
                                   status_code |-> 200,
                                   timestamp |-> timestamps'[i] ]
           ELSE /\ result' = [ op |-> "ts_update", status |-> "error",
                               status_code |-> 404 ]
                /\ UNCHANGED timestamps
    /\ request' = [ route |-> "PUT /timestamps/{timestamp_id}",
                    timestamp_id |-> timestamp_id,
                    description |-> description ]
    /\ UNCHANGED <<uploaded_files, vitals_files, disk>>

\* DELETE /{timestamp_id}
delete_timestamp(timestamp_id) ==
    /\ Idle
    /\ timestamps' = SelectSeq(timestamps, LAMBDA ts : ts.id # timestamp_id)
    /\ result' = IF Len(timestamps') < Len(timestamps)
                 THEN [ op |-> "ts_delete", status |-> "success",
                        status_code |-> 200 ]
                 ELSE [ op |-> "ts_delete", status |-> "error",
                        status_code |-> 404 ]
    /\ request' = [ route |-> "DELETE /timestamps/{timestamp_id}",
                    timestamp_id |-> timestamp_id ]
    /\ UNCHANGED <<uploaded_files, vitals_files, disk>>

\* DELETE /
clear_all_timestamps ==
    /\ Idle
    /\ timestamps' = <<>>
    /\ result' = [ op |-> "ts_clear", status |-> "success",
                   status_code |-> 200 ]
    /\ request' = [ route |-> "DELETE /timestamps" ]
    /\ UNCHANGED <<uploaded_files, vitals_files, disk>>

-----------------------------------------------------------------------------
(* Specifications *)

\* Channels at which a run may make compute_spectrogram fail (0: nowhere):
\* the rows of the registered recording.
Faults ==
    LET p == Get(uploaded_files, "eeg")
    IN  IF Exists(p) THEN 0..Len(disk[p].Data) ELSE {0}

\* One EEG recording has been uploaded and registered.
InitEeg ==
    /\ \E f \in EegFiles : disk = [p \in {1} |-> f]
    /\ uploaded_files = [k \in {"eeg"} |-> 1]
    /\ vitals_files = <<>>
    /\ timestamps = <<>>
    /\ request = NoRequest
    /\ result = NoResult

\* One waves container has been uploaded and registered.
InitVitals ==
    /\ \E f \in WavesFiles : disk = [p \in {1} |-> f]
    /\ uploaded_files = <<>>
    /\ vitals_files = [k \in {"waves"} |-> 1]
    /\ timestamps = <<>>
    /\ request = NoRequest
    /\ result = NoResult

\* A path is registered whose file is no longer in the upload directory.
InitStale ==
    /\ disk = <<>>
    /\ uploaded_files = [k \in {"eeg"} |-> 1]
    /\ vitals_files = <<>>
    /\ timestamps = <<>>
    /\ request = NoRequest
    /\ result = NoResult

Init == InitEeg \/ InitVitals \/ InitStale

Next ==
    \/ \E o \in Offsets : get_eeg_live_data_endpoint(o)
    \/ \E o \in Offsets, d \in Durations, k \in Faults :
            get_eeg_spectrogram_data(o, d, k)
    \/ get_eeg_trend_plot
    \/ \E o \in Offsets : get_vitals_live_data_endpoint(o)
    \/ Respond

Spec == Init /\ [][Next]_vars

\* The registry from start-up: nothing uploaded, uploads and clears arrive.
UploadedContents ==
    { EegFile(TRUE, TRUE, <<1, 2, 12>>, 1, <<>>, 25),
      EegFile(TRUE, TRUE, <<0, 1, 2>>, 2, <<>>, 25),
      EegFile(FALSE, TRUE, <<1, 2, 12>>, 1, <<>>, 25) }

InitRegistry ==
    /\ disk = <<>>
    /\ uploaded_files = <<>>
    /\ vitals_files = <<>>
    /\ timestamps = <<>>
    /\ request = NoRequest
    /\ result = NoResult

NextRegistry ==
    \/ \E content \in UploadedContents : upload_eeg_file(content)
    \/ \E removeFails \in BOOLEAN : clear_eeg(removeFails)
    \/ \E o \in Offsets : get_eeg_live_data_endpoint(o)
    \/ get_eeg_trend_plot
    \/ Respond

SpecRegistry == InitRegistry /\ [][NextRegistry]_vars

-----------------------------------------------------------------------------
(* Vocabulary of the properties.  These operators read the containers on    *)
(* disk directly and share nothing with the services' operators.            *)

IsLive == result.op = "eeg_live"
IsSpec == result.op = "eeg_spec"
IsTrend == result.op = "eeg_trend"
IsVitals == result.op = "vitals_live"

EegPath == Get(uploaded_files, "eeg")
HasEeg == Exists(EegPath)
EegOnDisk == disk[EegPath]
EegIntact == HasEeg /\ EegOnDisk.hasTime /\ EegOnDisk.hasData

NonZeroIdx(time) == { i \in DOMAIN time : time[i] # 0 }
MinOf(S) == CHOOSE x \in S : \A y \in S : x <= y
MaxOf(S) == CHOOSE x \in S : \A y \in S : y <= x
FirstValidTime(time) == time[MinOf(NonZeroIdx(time))]
LastValidTime(time) == time[MaxOf(NonZeroIdx(time))]
RecordingDuration(time) == LastValidTime(time) - FirstValidTime(time)

\* The dataset of the registered waves container a waveform is labelled with.
WavesOnDisk == disk[Get(vitals_files, "waves")]
DatasetOf(label) ==
    LET ds == WavesOnDisk.series
    IN  ds[CHOOSE i \in DOMAIN ds : ds[i].key = label]

\* Every window of the response: its relative times and values, the time
\* vector and value row it was cut from, and the window's bounds.
Windows ==
    IF IsLive THEN
        { [ time |-> result.channels[ch].time,
            values |-> result.channels[ch].values,
            src |-> EegOnDisk.Time, row |-> EegOnDisk.Data[ch],
            start |-> result.frame.start_time,
            end |-> result.frame.end_time ] : ch \in DOMAIN result.channels }
    ELSE IF IsVitals THEN
        { [ time |-> result.waveforms[r].time,
            values |-> result.waveforms[r].values,
            src |-> DatasetOf(result.waveforms[r].label).time,
            row |-> DatasetOf(result.waveforms[r].label).values,
            start |-> result.frames[r].start_time,
            end |-> result.frames[r].end_time ] : r \in DOMAIN result.waveforms }
    ELSE {}

-----------------------------------------------------------------------------
(* C1 *)

\* C1 as stated: whenever a window returned by get_eeg_live_data, or a
\* waveform of get_vitals_live_data, is non-empty, its first relative time
\* equals 0.
C1_FirstRelativeTimeIsZero ==
    \A w \in Windows : w.time # <<>> => w.time[1] = 0

\* C1 amended: a non-empty window's first relative time is never negative;
\* it is 0 exactly when a valid sample lies on the window start, which is
\* the first valid time plus max(offset, 0), hence whenever offset <= 0.
C1_FirstRelativeTime ==
    \A w \in Windows :
        w.time # <<>> =>
            LET start == FirstValidTime(w.src)
                         + (IF result.time_offset > 0 THEN result.time_offset
                            ELSE 0)
            IN  /\ w.time[1] >= 0
                /\ w.time[1] = 0 <=>
                       \E i \in NonZeroIdx(w.src) : w.src[i] = start
                /\ result.time_offset <= 0 => w.time[1] = 0

\* A positive offset lands on a valid sample: the window starts at 0.
C1_Witness ==
    /\ IsLive
    /\ result.time_offset > 0
    /\ \E w \in Windows : Len(w.time) >= 2 /\ w.time[1] = 0

-----------------------------------------------------------------------------
(* C2 *)

\* The EEG response holds no sample and reports no error.
EmptyWindow ==
    /\ result.error = <<>>
    /\ IsLive => result.channels = <<>>
    /\ IsSpec => ~result.frame.looped /\ result.spectrograms = <<>>

\* C2 as stated: for every offset greater than or equal to the recording
\* duration (last valid time minus first valid time), the extracted window
\* contains no samples and no error is raised.
C2_EmptyAtOrPastDuration ==
    ( /\ IsLive \/ IsSpec
      /\ EegIntact
      /\ NonZeroIdx(EegOnDisk.Time) # {}
      /\ result.time_offset >= RecordingDuration(EegOnDisk.Time) )
    => EmptyWindow

\* C2 amended: for every offset strictly greater than the recording duration
\* the window contains no samples and no error is raised; at an offset equal
\* to the duration of a recording with at least 2 valid samples the window
\* holds exactly the last valid sample, at relative time 0.
C2_EmptyPastDuration ==
    ( /\ IsLive \/ IsSpec
      /\ EegIntact
      /\ NonZeroIdx(EegOnDisk.Time) # {} )
    => LET time == EegOnDisk.Time
           atLast == { i \in NonZeroIdx(time) : time[i] = LastValidTime(time) }
       IN  /\ result.time_offset > RecordingDuration(time) => EmptyWindow
           /\ ( /\ result.time_offset = RecordingDuration(time)
                /\ Cardinality(NonZeroIdx(time)) >= 2 )
              => /\ IsLive =>
                     /\ result.channels # <<>>
                     /\ \A w \in Windows :
                            /\ Len(w.time) = Cardinality(atLast)
                            /\ \A k \in DOMAIN w.time : w.time[k] = 0
                            /\ { w.values[k] : k \in DOMAIN w.values }
                                   = { w.row[i] : i \in atLast }
                 /\ IsSpec =>
                     /\ result.frame.looped
                     /\ Cardinality({ k \in DOMAIN result.frame.mask :
                                        result.frame.mask[k] })
                            = Cardinality(atLast)

\* An offset past the end of a recording with valid samples: nothing comes
\* back, from either handler.
C2_Witness ==
    /\ IsSpec
    /\ EegIntact
    /\ Cardinality(NonZeroIdx(EegOnDisk.Time)) >= 2
    /\ result.time_offset > RecordingDuration(EegOnDisk.Time)
    /\ EmptyWindow

-----------------------------------------------------------------------------
(* C3 *)

\* C3: for every offset < 0 the effective window start equals the first
\* valid sample time, every relative time in the result is >= 0, and no
\* exception is raised.
C3_NegativeOffsetClamps ==
    ( /\ IsLive
      /\ EegIntact
      /\ result.time_offset < 0 )
    => /\ ~result.frame.raised
       /\ result.frame.windowed =>
              result.frame.start_time = FirstValidTime(EegOnDisk.Time)
       /\ Cardinality(NonZeroIdx(EegOnDisk.Time)) >= 2 =>
              /\ result.frame.windowed
              /\ result.channels # <<>>
       /\ \A w \in Windows : \A k \in DOMAIN w.time : w.time[k] >= 0

\* A negative offset on a recording that starts with padding: the window
\* starts on the first valid sample.
C3_Witness ==
    /\ IsLive
    /\ result.time_offset < 0
    /\ EegIntact
    /\ result.frame.windowed
    /\ EegOnDisk.Time[1] = 0
    /\ \E w \in Windows : Len(w.time) >= 2

-----------------------------------------------------------------------------
(* C4 *)

\* The position of i among the members of S, counted from 1.
Rank(S, i) == Cardinality({ j \in S : j <= i })

\* Every valid view a handler derived: the filtered time vector and the raw
\* time vector it was derived from.
ValidViews ==
    IF (IsLive \/ IsSpec) /\ result.frame.read THEN
        { [tv |-> result.frame.time_valid, src |-> EegOnDisk.Time] }
    ELSE IF IsVitals THEN
        { [ tv |-> result.frames[r].time_valid,
            src |-> DatasetOf(result.keys[r]).time ] :
            r \in DOMAIN result.frames }
    ELSE {}

\* The columns of a window's source that are valid and inside its bounds.
Kept(w) ==
    { i \in NonZeroIdx(w.src) : w.start <= w.src[i] /\ w.src[i] <= w.end }

\* C4: the validity filter keeps exactly the samples whose time is not 0:
\* every kept time is non-zero, the number kept is N minus the number of
\* zero entries, order is preserved, and every channel row loses the same
\* columns (the values returned for a window are those of the valid columns
\* inside the window, in order, for every row alike).
C4_ValidityFilter ==
    /\ \A v \in ValidViews :
          /\ \A k \in DOMAIN v.tv : v.tv[k] # 0
          /\ Len(v.tv) = Len(v.src)
                         - Cardinality({ i \in DOMAIN v.src : v.src[i] = 0 })
          /\ \A i \in NonZeroIdx(v.src) :
                 v.tv[Rank(NonZeroIdx(v.src), i)] = v.src[i]
    /\ \A w \in Windows :
          /\ Len(w.values) = Len(w.time)
          /\ Len(w.values) = Cardinality(Kept(w))
          /\ \A i \in Kept(w) :
                 /\ w.values[Rank(Kept(w), i)] = w.row[i]
                 /\ w.time[Rank(Kept(w), i)] = w.src[i] - w.start

\* A two-row recording padded in the middle, seen through a window that
\* spans the padding.
C4_Witness ==
    /\ IsLive
    /\ Len(result.channels) >= 2
    /\ \E i \in DOMAIN EegOnDisk.Time :
          /\ EegOnDisk.Time[i] = 0
          /\ i > 1 /\ i < Len(EegOnDisk.Time)
    /\ \A w \in Windows : Len(w.values) >= 2

-----------------------------------------------------------------------------
(* C5 *)

\* C5 as stated: no channel of a window result (EEG channels, vitals
\* waveforms) is present with empty time / values arrays.
C5_NoEmptyChannel ==
    \A w \in Windows : w.time # <<>> /\ w.values # <<>>

-----------------------------------------------------------------------------
(* C6 *)

\* The window get_eeg_spectrograms cuts, from the container and the request.
SpecWindow ==
    LET time == EegOnDisk.Time
        start == FirstValidTime(time)
                 + (IF result.time_offset > 0 THEN result.time_offset ELSE 0)
        stop == start + result.window_duration
    IN  [ src |-> time, start |-> start,
          end |-> IF LastValidTime(time) < stop THEN LastValidTime(time)
                  ELSE stop ]

\* C6: the segment length is min(256, floor(fs)), the overlap is the
\* segment length div 2, and when the window holds fewer samples than the
\* segment length no channel appears in spectrograms and nothing is raised.
C6_SegmentLength ==
    (IsSpec /\ result.frame.looped) =>
        LET n == result.frame.nperseg
            o == result.frame.noverlap
            fs10 == IF EegOnDisk.SamplingFreq # 0 THEN EegOnDisk.SamplingFreq
                    ELSE DefaultFs10
            count == Cardinality(Kept(SpecWindow))
        IN  /\ n <= MaxNperseg
            /\ 10 * n <= fs10
            /\ n < MaxNperseg => fs10 < 10 * (n + 1)
            /\ 2 * o <= n /\ n < 2 * o + 2
            /\ count < n =>
                   /\ result.spectrograms = <<>>
                   /\ result.frequencies = <<>>
                   /\ result.error = <<>>
            /\ \A name \in DOMAIN result.spectrograms :
                   Len(result.spectrograms[name].samples) >= n

\* A recording sampled at 2.5 Hz whose window holds a single sample: the
\* segment length is 2 and no channel is reported.
C6_Witness ==
    /\ IsSpec
    /\ result.frame.looped
    /\ result.sampling_freq = 25
    /\ result.frame.nperseg = 2
    /\ Cardinality(Kept(SpecWindow)) = 1
    /\ result.spectrograms = <<>>
    /\ result.error = <<>>

-----------------------------------------------------------------------------
(* C7 *)

\* C7 as stated: the dataset selected for a role is the first name, in
\* container iteration order, that matches the role's vocabulary.
C7_FirstMatchWins ==
    IsVitals =>
        \A r \in DOMAIN result.waveforms :
            LET ds == SelectSeq(WavesOnDisk.series, LAMBDA d : d.rows >= 2)
                matching == { i \in DOMAIN ds : RoleOf(ds[i].key) = r }
            IN  result.waveforms[r].label = ds[MinOf(matching)].key

-----------------------------------------------------------------------------
(* C8 *)

\* The j-th member of S, counted from 1.
Nth(S, j) == CHOOSE i \in S : Rank(S, i) = j

\* C8: an exception inside get_eeg_spectrograms leaves an error string in
\* the result, and when it strikes at channel k + 1 the entries of the k
\* channels processed before it, and the shared axes, are still there.
C8_PartialResultsKept ==
    IsSpec =>
        /\ result.frame.raised => result.error # <<>>
        /\ (HasEeg /\ ~EegIntact) => result.error = <<KeysMissing>>
        /\ result.error = <<FaultMessage>> =>
               LET k == result.frame.fault - 1
                   names == result.channel_names
                   kept == Kept(SpecWindow)
               IN  /\ DOMAIN result.spectrograms = { names[i] : i \in 1..k }
                   /\ \A i \in 1..k :
                          LET last == MaxOf({ j \in 1..k : names[j] = names[i] })
                          IN  result.spectrograms[names[i]].samples =
                                  [j \in 1..Cardinality(kept) |->
                                      EegOnDisk.Data[last][Nth(kept, j)]]
                   /\ k > 0 => /\ result.frequencies # <<>>
                               /\ result.times # <<>>

\* The second channel fails after the first was processed.
C8_Witness ==
    /\ IsSpec
    /\ result.error = <<FaultMessage>>
    /\ result.frame.fault = 2
    /\ Cardinality(DOMAIN result.spectrograms) = 1
    /\ result.frequencies # <<>>

-----------------------------------------------------------------------------
(* C9 *)

\* C9 as stated: when the registered container lacks Time or Data, each of
\* get_eeg_live_data, get_eeg_spectrograms and generate_eeg_trend_plot
\* returns a result that carries the failure message in its error or title.
C9_MissingArrayReported ==
    ( /\ IsLive \/ IsSpec \/ IsTrend
      /\ HasEeg
      /\ ~EegIntact )
    => IF IsTrend
       THEN \E i \in DOMAIN result.title : result.title[i] = KeysMissing
       ELSE result.error = <<KeysMissing>>

-----------------------------------------------------------------------------
(* C10 *)

\* C10 as stated: once clear_eeg has been invoked the registry holds no
\* reference to an EEG recording, whatever the outcome of removing the file.
C10_ClearReleases ==
    result.op = "eeg_clear" => "eeg" \notin DOMAIN uploaded_files

-----------------------------------------------------------------------------
(* C11 *)

\* C11: with no recording registered (no path, or a path whose file does
\* not exist) get_eeg_live_data returns no channels, the requested
\* time_offset and a window_duration of 10 seconds; get_eeg_spectrograms
\* returns empty spectrograms and axes, the requested window_duration and
\* no error.
C11_NoRecording ==
    ~HasEeg =>
        /\ IsLive =>
               /\ result.channels = <<>>
               /\ result.time_offset = request.time_offset
               /\ result.window_duration = 10
        /\ IsSpec =>
               /\ result.spectrograms = <<>>
               /\ result.frequencies = <<>>
               /\ result.times = <<>>
               /\ result.time_offset = request.time_offset
               /\ result.window_duration = request.window_duration
               /\ result.error = <<>>

\* A spectrogram of one second is asked for while the registered path names
\* no file.
C11_Witness ==
    /\ IsSpec
    /\ EegPath # NoPath
    /\ ~HasEeg
    /\ request.window_duration = 1
    /\ request.time_offset = 11
    /\ result.spectrograms = <<>>

-----------------------------------------------------------------------------
(* C12 *)

\* The window get_eeg_live_data cuts, from the container and the request.
LiveWindow ==
    LET time == EegOnDisk.Time
        start == FirstValidTime(time)
                 + (IF request.time_offset > 0 THEN request.time_offset ELSE 0)
        stop == start + 10
    IN  [ src |-> time, start |-> start,
          end |-> IF LastValidTime(time) < stop THEN LastValidTime(time)
                  ELSE stop ]

\* The samples of a row at the columns of S, in column order.
Samples(row, S) == [j \in 1..Cardinality(S) |-> row[Nth(S, j)]]

\* C12: every channel of one window result carries the same relative-time
\* axis and as many values, namely the valid samples with
\* start <= t <= end in original order, end = min(last valid time,
\* start + duration); every relative time lies in [0, duration].  The
\* spectrogram of a channel is computed from the same samples.
C12_AlignedChannels ==
    /\ (IsLive /\ result.channels # <<>>) =>
           LET w == LiveWindow
               axis == [j \in 1..Cardinality(Kept(w)) |->
                           w.src[Nth(Kept(w), j)] - w.start]
           IN  \A ch \in DOMAIN result.channels :
                   /\ result.channels[ch].time = axis
                   /\ Len(result.channels[ch].values) = Len(axis)
                   /\ result.channels[ch].values
                          = Samples(EegOnDisk.Data[ch], Kept(w))
                   /\ \A k \in DOMAIN axis : 0 <= axis[k] /\ axis[k] <= 10
    /\ (IsSpec /\ result.frame.looped) =>
           \A name \in DOMAIN result.spectrograms :
               \E ch \in DOMAIN EegOnDisk.Data :
                   /\ result.channel_names[ch] = name
                   /\ result.spectrograms[name].samples
                          = Samples(EegOnDisk.Data[ch], Kept(SpecWindow))

\* Two channels, a recording longer than the 10 seconds shown: the window
\* stops before the last valid sample.
C12_Witness ==
    /\ IsLive
    /\ Len(result.channels) >= 2
    /\ Len(result.channels[1].time) >= 2
    /\ LastValidTime(EegOnDisk.Time) > LiveWindow.end

-----------------------------------------------------------------------------
(* C13 *)

\* C13: the frequencies and times axes of a get_eeg_spectrograms result are
\* assigned once, at the first channel that is processed, and not again;
\* they are non-empty exactly when spectrograms is non-empty.
C13_AxesSetOnce ==
    IsSpec =>
        /\ result.frequencies # <<>> <=> result.spectrograms # <<>>
        /\ result.times # <<>> <=> result.spectrograms # <<>>
        /\ result.frame.axes_at =
               IF result.frame.done = <<>> THEN <<>>
               ELSE <<result.frame.done[1]>>

\* Two channels were processed; the axes were stored at the first.
C13_Witness ==
    /\ IsSpec
    /\ Len(result.frame.done) >= 2
    /\ Cardinality(DOMAIN result.spectrograms) >= 2
    /\ result.frame.axes_at = <<1>>
    /\ result.frequencies # <<>>

-----------------------------------------------------------------------------
(* C14 *)

\* C14 as stated: for a recording with C data rows whose windowed sample
\* count is at least the segment length, spectrograms has one entry for each
\* of the C channels, whatever the metadata channel-name list.
C14_EveryChannel ==
    ( /\ IsSpec
      /\ result.frame.looped
      /\ result.error = <<>>
      /\ Cardinality(Kept(SpecWindow)) >= result.frame.nperseg )
    => Cardinality(DOMAIN result.spectrograms) = Len(EegOnDisk.Data)

-----------------------------------------------------------------------------
(* The annotation store on its own *)

InitTimestamps ==
    /\ uploaded_files = <<>>
    /\ vitals_files = <<>>
    /\ disk = <<>>
    /\ timestamps = <<>>
    /\ request = NoRequest
    /\ result = NoResult

NextTimestamps ==
    \/ \E t \in TimestampOffsets, d \in Descriptions : add_timestamp(t, d)
    \/ \E id \in TimestampIds, d \in Descriptions : update_timestamp(id, d)
    \/ \E id \in TimestampIds : delete_timestamp(id)
    \/ clear_all_timestamps
    \/ Respond

SpecTimestamps == InitTimestamps /\ [][NextTimestamps]_vars

-----------------------------------------------------------------------------
(* C15 *)

\* C15 as stated: after any sequence of add_timestamp, update_timestamp,
\* delete_timestamp and clear_all_timestamps calls the ids of the stored
\* annotations are pairwise distinct.
C15_DistinctIds ==
    \A i, j \in DOMAIN timestamps :
        i # j => timestamps[i].id # timestamps[j].id

====
